---- MODULE Spec2Model ----
(***************************************************************************)
(* Model of the itinerary-app server: the itinerary routes of              *)
(* server/routes.ts over the PgStorage table of server/storage.ts, the     *)
(* generative collaborator wrapper generateItinerary, and the              *)
(* location-suggestions route over GooglePlacesService.                    *)
(*                                                                         *)
(* Every route handler is an async function: it runs atomically between    *)
(* two awaits, so each handler is cut into one action per await (the       *)
(* storage read, the collaborator call, the storage write).  Several       *)
(* handlers are in flight at once: reqs is the bag of their continuations. *)
(***************************************************************************)
EXTENDS Integers, Sequences, FiniteSets, Bags, TLC

\* ------------------------------------------------------------------ bounds
MaxReqs == 2          \* handlers in flight at the same time
MaxItineraries == 1   \* rows the serial id column hands out in one behaviour
MaxClock == 3         \* storage writes (ticks of the wall clock) in one behaviour

Ids == 1..MaxItineraries

\* ------------------------------------------------------------- value space
Null == "null"            \* JavaScript null / SQL NULL
Absent == "undefined"     \* a key the object does not carry
NumberValue == "#123"     \* a JSON number where the schema wants text
NoUser == 0               \* req.isAuthenticated() is false
Users == {1, 2}

\* The content string of the collaborator's first choice, as a token sequence.
ObjectText(t) == <<"{", "title", ":", t, "}">>
TruncatedText(t) == <<"{", "title", ":", t>>
EmptyObjectText == <<"{", "}">>
EmptyText == << >>
PayloadTitles == {"A", "B"}

\* Parsed JSON values, written in canonical form.
EmptyObject == "{}"
Payload(t) == "{title:" \o t \o "}"
SyntaxError == "SyntaxError"

\* JSON.parse on a token sequence: an object, or a thrown SyntaxError.
JSONparse(text) ==
    IF text = EmptyObjectText THEN EmptyObject
    ELSE IF Len(text) = 5 /\ text[1] = "{" /\ text[3] = ":" /\ text[5] = "}"
         THEN Payload(text[4])
    ELSE SyntaxError

\* What the generative collaborator can do with one chat-completion call.
CollaboratorOutcomes ==
    {[kind |-> "network_error", text |-> EmptyText],
     [kind |-> "http_error", text |-> EmptyText],
     [kind |-> "content_missing", text |-> EmptyText],
     [kind |-> "content", text |-> EmptyText],
     [kind |-> "content", text |-> EmptyObjectText]}
    \cup {[kind |-> "content", text |-> ObjectText(t)] : t \in PayloadTitles}
    \cup {[kind |-> "content", text |-> TruncatedText(t)] : t \in {"A"}}

Thrown == [ok |-> FALSE, value |-> Null]
Returned(v) == [ok |-> TRUE, value |-> v]

\* generateItinerary with a parse failure swallowed: "{}" is returned instead.
generateItinerarySwallows(outcome) ==
    IF outcome.kind \in {"network_error", "http_error"} THEN Thrown
    ELSE LET text == IF outcome.kind = "content_missing" \/ outcome.text = EmptyText
                     THEN EmptyObjectText ELSE outcome.text
             result == JSONparse(text)
         IN IF result = SyntaxError THEN Returned(EmptyObject) ELSE Returned(result)

\* generateItinerary: the create call throws on a network error or a non-2xx
\* answer; the content, or "{}" when it is null or empty, goes through
\* JSON.parse; every exception becomes one thrown Error.
generateItinerary(outcome) ==
    IF outcome.kind \in {"network_error", "http_error"} THEN Thrown
    ELSE LET text == IF outcome.kind = "content_missing" \/ outcome.text = EmptyText
                     THEN EmptyObjectText ELSE outcome.text
             result == JSONparse(text)
         IN IF result = SyntaxError THEN Thrown ELSE Returned(result)

\* ------------------------------------------------------------------- state
VARIABLES
    itineraries,          \* the itineraries table: id -> row, for the rows that exist
    currentItineraryId,   \* the next value of the serial id column
    now,                  \* the wall clock read by new Date() / defaultNow()
    reqs,                 \* the handlers in flight: the bag of their continuations
    res,                  \* the response sent last, with the request it answers
                          \* and the row its handler had read
    before                \* history: the row the last write found (NoRow: none)


NoRow == [id |-> 0]
IsRow(x) == "status" \in DOMAIN x

\* res.status(code).json({message}), res.status(204).send()
Message(code) == [status |-> code, body |-> NoRow]
\* res.json(row); res.json(undefined) sends 200 with no body.
Json(code, row) == [status |-> code, body |-> row]

NoResponse ==
    [op |-> "none", user |-> 0, id |-> 0, read |-> NoRow, status |-> 0, body |-> NoRow]
Response(op, user, id, read, answer) ==
    [op |-> op, user |-> user, id |-> id, read |-> read,
     status |-> answer.status, body |-> answer.body]

NoData == [title |-> Absent, generatedContent |-> Absent, status |-> Absent]

\* A handler suspended at an await: the route, where it resumes, and its
\* locals (req.user, the row it read, the updates it is about to write).
Awaiting(op, pc, user, row, data) ==
    [op |-> op, pc |-> pc, user |-> user, itinerary |-> row, data |-> data]

InFlight == BagToSet(reqs)

\* A new request is taken while fewer than MaxReqs handlers are in flight and
\* the clock has room for the write of every handler in flight and its own.
Accepts ==
    /\ BagCardinality(reqs) < MaxReqs
    /\ now + BagCardinality(reqs) < MaxClock

\* ----------------------------------------------------------------- schemas
ZodError == [error |-> "ZodError"]
IsZodError(v) == "error" \in DOMAIN v
IsText(v) == v \notin {Absent, Null, NumberValue}

\* Request bodies of POST /api/itineraries.
CreateBody(t, s, g) ==
    [title |-> t, location |-> "Rome", status |-> s, generatedContent |-> g]
CreateBodies ==
    {CreateBody("t1", Absent, Absent),
     CreateBody("t1", "generated", Payload("A")),
     CreateBody(NumberValue, Absent, Absent)}

\* insertItinerarySchema without the omit of status and generatedContent.
insertItinerarySchemaKeepsAll(body) ==
    IF ~IsText(body.title) \/ ~IsText(body.location) THEN ZodError
    ELSE [title |-> body.title, location |-> body.location,
          status |-> body.status, generatedContent |-> body.generatedContent]

\* insertItinerarySchema.parse: the text columns without a default are
\* required; id, userId, generatedContent, status and the timestamps are
\* omitted from the schema, so the parsed object never carries them.
insertItinerarySchema(body) ==
    IF ~IsText(body.title) \/ ~IsText(body.location) THEN ZodError
    ELSE [title |-> body.title, location |-> body.location,
          status |-> Absent, generatedContent |-> Absent]

\* Request bodies of PUT /api/itineraries/:id.
UpdateBody(t, g, s, l) ==
    [title |-> t, generatedContent |-> g, status |-> s, location |-> l,
     userId |-> IF l = Absent THEN NoUser ELSE 2]
UpdateBodies ==
    {UpdateBody("t2", Absent, Absent, "Oslo"),
     UpdateBody(NumberValue, Absent, Absent, Absent),
     UpdateBody(Absent, Null, Absent, Absent)}
    \cup {UpdateBody(Absent, Absent, st, Absent) :
            st \in {"draft", "generated", "saved", "archived"}}

\* updateItinerarySchema.partial().parse: title, generatedContent and status
\* are picked (description is not modelled), all optional; title and status
\* are text of any content, generatedContent is nullable JSON; other keys
\* are stripped.
\* updateItinerarySchema that lets the other keys of the body through.
updateItinerarySchemaPassthrough(body) ==
    IF body.title \in {Null, NumberValue} \/ body.status \in {Null, NumberValue}
    THEN ZodError
    ELSE body

updateItinerarySchema(body) ==
    IF body.title \in {Null, NumberValue} \/ body.status \in {Null, NumberValue}
    THEN ZodError
    ELSE [title |-> body.title, generatedContent |-> body.generatedContent,
          status |-> body.status]

\* ----------------------------------------------------------------- storage
\* PgStorage.getItinerary: the row, or undefined.
getItinerary(id) == IF id \in DOMAIN itineraries THEN itineraries[id] ELSE NoRow

\* The row PgStorage.createItinerary inserts: the columns the values leave
\* out take their defaults (serial id, status 'draft', NULL content, now()).
createItinerary(values, userId) ==
    [id |-> currentItineraryId,
     userId |-> userId,
     title |-> values.title,
     location |-> values.location,
     generatedContent |->
        IF values.generatedContent = Absent THEN Null ELSE values.generatedContent,
     status |-> IF values.status = Absent THEN "draft" ELSE values.status,
     updatedAt |-> now]

Set(old, new) == IF new = Absent THEN old ELSE new

\* .set({ ...updates }) writes every column the updates object carries.
SetLocation(old, updates) ==
    IF "location" \in DOMAIN updates THEN Set(old, updates.location) ELSE old
SetUserId(old, updates) ==
    IF "userId" \in DOMAIN updates /\ updates.userId /= NoUser
    THEN updates.userId ELSE old

\* updateItinerary that fills generated_content only while it is NULL.
updateItineraryKeepsContent(id, updates) ==
    IF id \in DOMAIN itineraries
    THEN [itineraries[id] EXCEPT
            !.title = Set(@, updates.title),
            !.generatedContent = IF @ = Null THEN Set(@, updates.generatedContent) ELSE @,
            !.status = Set(@, updates.status),
            !.location = SetLocation(@, updates),
            !.userId = SetUserId(@, updates),
            !.updatedAt = now]
    ELSE NoRow

\* updateItinerary with an optimistic check: a row written since the caller
\* read it (a row already generated) is left as it is.
updateItineraryFirstWins(id, updates) ==
    IF id \in DOMAIN itineraries
    THEN IF itineraries[id].status = "generated" /\ updates.status = "generated"
         THEN itineraries[id]
         ELSE [itineraries[id] EXCEPT
                 !.title = Set(@, updates.title),
                 !.generatedContent = Set(@, updates.generatedContent),
                 !.status = Set(@, updates.status),
                 !.location = SetLocation(@, updates),
                 !.userId = SetUserId(@, updates),
                 !.updatedAt = now]
    ELSE NoRow

\* The row PgStorage.updateItinerary leaves: UPDATE ... SET the keys of
\* updates and updated_at WHERE id = id RETURNING *, or undefined.
updateItinerary(id, updates) ==
    IF id \in DOMAIN itineraries
    THEN [itineraries[id] EXCEPT
            !.title = Set(@, updates.title),
            !.generatedContent = Set(@, updates.generatedContent),
            !.status = Set(@, updates.status),
            !.location = SetLocation(@, updates),
            !.userId = SetUserId(@, updates),
            !.updatedAt = now]
    ELSE NoRow

\* The table after the UPDATE.
Updated(id, row) ==
    IF IsRow(row) THEN [itineraries EXCEPT ![id] = row] ELSE itineraries

\* The table after PgStorage.deleteItinerary.
deleteItinerary(id) == [i \in DOMAIN itineraries \ {id} |-> itineraries[i]]

\* ------------------------------------------------------------------ routes
\* A request is answered by its handler's first step.
Reply(op, user, id, read, answer) ==
    /\ res' = Response(op, user, id, read, answer)
    /\ UNCHANGED reqs

\* A new handler suspends at its first await.
Await(h) ==
    /\ reqs' = reqs (+) SetToBag({h})
    /\ UNCHANGED res

\* Handler h resumes and suspends again as g.
Continue(h, g) ==
    /\ reqs' = (reqs (-) SetToBag({h})) (+) SetToBag({g})
    /\ UNCHANGED res

\* Handler h resumes, answers and ends.
Respond(h, answer) ==
    /\ reqs' = reqs (-) SetToBag({h})
    /\ res' = Response(h.op, h.user, h.itinerary.id, h.itinerary, answer)

Routes == {"create", "read", "generate", "update", "delete"}

\* Every itinerary route answers 401 first when req.isAuthenticated() is false.
Unauthenticated(op, id) ==
    /\ Accepts
    /\ Reply(op, NoUser, IF op = "create" THEN 0 ELSE id, NoRow, Message(401))
    /\ UNCHANGED <<itineraries, currentItineraryId, now, before>>

\* The 404 answer alone: the owner of the row is not compared with the caller.
RefusalWithoutOwner(user, row) ==
    IF ~IsRow(row) THEN Message(404) ELSE Message(0)

\* The 404 and 403 answers every /api/itineraries/:id route gives to an
\* authenticated caller; Message(0) when the request passes them.
Refusal(user, row) ==
    IF ~IsRow(row) THEN Message(404)
    ELSE IF row.userId /= user THEN Message(403)
    ELSE Message(0)

\* GET /api/itineraries/:id, authenticated.
GetItinerary(user, id) ==
    /\ Accepts
    /\ LET itinerary == getItinerary(id)
           refusal == Refusal(user, itinerary)
       IN IF refusal /= Message(0)
          THEN Reply("read", user, id, itinerary, refusal)
          ELSE Reply("read", user, id, itinerary, Json(200, itinerary))
    /\ UNCHANGED <<itineraries, currentItineraryId, now, before>>

\* POST /api/itineraries, authenticated.
PostItinerary(user, body) ==
    /\ Accepts
    /\ LET validatedData == insertItinerarySchema(body) IN
       IF IsZodError(validatedData)
       THEN /\ Reply("create", user, 0, NoRow, Message(400))
            /\ UNCHANGED <<itineraries, currentItineraryId, now, before>>
       ELSE /\ currentItineraryId <= MaxItineraries
            /\ LET itinerary == createItinerary(validatedData, user) IN
               /\ itineraries' = [i \in DOMAIN itineraries \cup {itinerary.id} |->
                                    IF i = itinerary.id THEN itinerary
                                    ELSE itineraries[i]]
               /\ Reply("create", user, 0, NoRow, Json(201, itinerary))
            /\ currentItineraryId' = currentItineraryId + 1
            /\ now' = now + 1
            /\ before' = NoRow

\* POST /api/itineraries/:id/generate, up to the call of the collaborator.
GenerateStart(user, id) ==
    /\ Accepts
    /\ LET itinerary == getItinerary(id)
           refusal == Refusal(user, itinerary)
       IN IF refusal /= Message(0)
          THEN Reply("generate", user, id, itinerary, refusal)
          ELSE Await(Awaiting("generate", "generating", user, itinerary, NoData))
    /\ UNCHANGED <<itineraries, currentItineraryId, now, before>>

\* The updates object the generate route hands to storage.updateItinerary.
GeneratedUpdates(generatedContent) ==
    [title |-> Absent, generatedContent |-> generatedContent, status |-> "generated"]

\* The collaborator call settles: the route answers 500 when
\* generateItinerary threw, and otherwise issues the UPDATE.
GenerateReturn(h, outcome) ==
    /\ h \in InFlight
    /\ h.pc = "generating"
    /\ LET generated == generateItinerary(outcome) IN
       IF ~generated.ok
       THEN Respond(h, Message(500))
       ELSE Continue(h, [h EXCEPT !.pc = "persisting",
                                  !.data = GeneratedUpdates(generated.value)])
    /\ UNCHANGED <<itineraries, currentItineraryId, now, before>>

\* The row a handler would write from the row it read when it started.
Merged(h) ==
    [h.itinerary EXCEPT
        !.title = Set(@, h.data.title),
        !.generatedContent = Set(@, h.data.generatedContent),
        !.status = Set(@, h.data.status),
        !.updatedAt = now]

\* Persist that saves the whole row the handler read, with its updates, over
\* the stored row.
PersistStaleRow(h) ==
    LET id == h.itinerary.id
        updatedItinerary == IF id \in DOMAIN itineraries THEN Merged(h) ELSE NoRow
    IN /\ itineraries' = Updated(id, updatedItinerary)
       /\ now' = IF IsRow(updatedItinerary) THEN now + 1 ELSE now
       /\ before' = getItinerary(id)
       /\ Respond(h, Json(200, updatedItinerary))
       /\ UNCHANGED currentItineraryId

\* Persist as an upsert: a row that is gone is inserted again from the row
\* the handler read.
PersistUpserting(h) ==
    LET id == h.itinerary.id
        updatedItinerary ==
            IF id \in DOMAIN itineraries THEN updateItinerary(id, h.data)
            ELSE Merged(h)
    IN /\ itineraries' = [i \in DOMAIN itineraries \cup {id} |->
                            IF i = id THEN updatedItinerary ELSE itineraries[i]]
       /\ now' = now + 1
       /\ before' = getItinerary(id)
       /\ Respond(h, Json(200, updatedItinerary))
       /\ UNCHANGED currentItineraryId

\* An UPDATE issued by a route runs, and the route answers with its row.
Persist(h) ==
    LET id == h.itinerary.id
        updatedItinerary == updateItinerary(id, h.data)
    IN /\ itineraries' = Updated(id, updatedItinerary)
       /\ now' = IF IsRow(updatedItinerary) THEN now + 1 ELSE now
       /\ before' = getItinerary(id)
       /\ Respond(h, Json(200, updatedItinerary))
       /\ UNCHANGED currentItineraryId

GeneratePersist(h) ==
    /\ h \in InFlight
    /\ h.pc = "persisting"
    /\ Persist(h)

\* PUT /api/itineraries/:id, up to the UPDATE.
PutStart(user, id, body) ==
    /\ Accepts
    /\ LET itinerary == getItinerary(id)
           refusal == Refusal(user, itinerary)
           validatedData == updateItinerarySchema(body)
       IN IF refusal /= Message(0)
          THEN Reply("update", user, id, itinerary, refusal)
          ELSE IF IsZodError(validatedData)
          THEN Reply("update", user, id, itinerary, Message(400))
          ELSE Await(Awaiting("update", "updating", user, itinerary, validatedData))
    /\ UNCHANGED <<itineraries, currentItineraryId, now, before>>

PutPersist(h) ==
    /\ h \in InFlight
    /\ h.pc = "updating"
    /\ Persist(h)

\* DELETE /api/itineraries/:id, up to the DELETE.
DeleteStart(user, id) ==
    /\ Accepts
    /\ LET itinerary == getItinerary(id)
           refusal == Refusal(user, itinerary)
       IN IF refusal /= Message(0)
          THEN Reply("delete", user, id, itinerary, refusal)
          ELSE Await(Awaiting("delete", "deleting", user, itinerary, NoData))
    /\ UNCHANGED <<itineraries, currentItineraryId, now, before>>

DeletePersist(h) ==
    /\ h \in InFlight
    /\ h.pc = "deleting"
    /\ itineraries' = deleteItinerary(h.itinerary.id)
    /\ before' = getItinerary(h.itinerary.id)
    /\ Respond(h, Message(204))
    /\ UNCHANGED <<currentItineraryId, now>>

\* ------------------------------------------------------ location suggestions
VARIABLES
    API_KEY,              \* GooglePlacesService.API_KEY, read once from the environment
    search,               \* the suggestions handler: idle, or awaiting the provider
    sres,                 \* the response the suggestions route sent last
    rawPlaces,              \* the raw places handed to convertToTravelSuggestions
    returned,            \* what the last call on the places service returned
    asked,                \* history: requests that reached a collaborator
    calls                 \* history: invocations of each collaborator

geoVars == <<API_KEY, search, sres>>
itineraryVars == <<itineraries, currentItineraryId, now, reqs, res, before>>
rankerVars == <<rawPlaces, returned>>
callVars == <<asked, calls>>

\* A query parameter: absent, or a text (a sequence of characters).
Missing == [present |-> FALSE, text |-> << >>]
Text(t) == [present |-> TRUE, text |-> t]
Queries ==
    {Missing, Text(<< >>), Text(<<"a", "b">>), Text(<<"0">>),
     Text(<<"4", "8", ".", "8">>), Text(<<"-", "2", ".", "3">>),
     Text(<<"1", "2", "a">>)}

Digits == {"0", "1", "2", "3", "4", "5", "6", "7", "8", "9"}
NaN == <<"NaN">>

\* The last index of the run of digits of s that starts at index from.
DigitRun(s, from) ==
    CHOOSE j \in (from - 1)..Len(s) :
        /\ \A k \in from..j : s[k] \in Digits
        /\ j = Len(s) \/ s[j + 1] \notin Digits

\* parseFloat: the longest prefix of s that reads as a decimal number (a sign,
\* digits, a point, digits), or NaN when that prefix holds no digit.
parseFloat(s) ==
    LET start == IF Len(s) > 0 /\ s[1] \in {"-", "+"} THEN 2 ELSE 1
        intEnd == DigitRun(s, start)
        fracEnd == IF intEnd < Len(s) /\ s[intEnd + 1] = "."
                   THEN DigitRun(s, intEnd + 2) ELSE intEnd
        digits == {k \in start..fracEnd : s[k] \in Digits}
    IN IF digits = {} THEN NaN ELSE SubSeq(s, 1, fracEnd)

\* Raw places of the provider (place_id, name, types, rating in tenths; -1: none).
NoRating == -1
NoCount == -1
Place(id, types, rating) ==
    [place_id |-> id, name |-> id, types |-> types, rating |-> rating,
     user_ratings_total |-> NoCount, geometry |-> TRUE, photos |-> << >>]
Places ==
    {Place("p1", <<"museum", "point_of_interest">>, 47),
     Place("p2", <<"restaurant", "food">>, 40),
     Place("p3", <<"park", "tourist_attraction">>, NoRating)}

MaxPlaces == 2        \* places in one provider answer
MaxInput == 7         \* places in one list handed to the places service
MaxCalls == 2         \* requests counted on their way to each collaborator

Results == UNION {[1..n -> Places] : n \in 0..MaxPlaces}

\* What one nearby-search call of the provider can come to.
SearchOutcomes ==
    {[kind |-> k, results |-> << >>] :
        k \in {"network_error", "http_error", "body_not_json", "ZERO_RESULTS",
               "REQUEST_DENIED", "OK_no_results"}}
    \cup {[kind |-> "OK", results |-> ps] : ps \in Results}

\* searchNearbyPlaces with the provider's status left unchecked.
searchNearbyPlacesUnchecked(outcome) ==
    IF outcome.kind \in {"network_error", "http_error", "body_not_json"}
    THEN [ok |-> FALSE, places |-> << >>]
    ELSE [ok |-> TRUE, places |-> outcome.results]

\* searchNearbyPlaces after the fetch: it throws when fetch threw, when the
\* HTTP status is not ok, when the body does not parse, and when the
\* provider's status is not "OK";
\* otherwise it returns data.results, or [] when there is none.
searchNearbyPlaces(outcome) ==
    IF outcome.kind \in {"OK", "OK_no_results"}
    THEN [ok |-> TRUE, places |-> outcome.results]
    ELSE [ok |-> FALSE, places |-> << >>]

travelTypes ==
    {"tourist_attraction", "museum", "amusement_park", "zoo", "aquarium",
     "art_gallery", "park", "natural_feature", "point_of_interest",
     "establishment"}

\* isValidTravelDestination that takes every place that carries a type.
isValidTravelDestinationAnyType(place) == place.types /= << >>

isValidTravelDestination(place) ==
    \E k \in DOMAIN place.types : place.types[k] \in travelTypes

typeMap ==
    [tourist_attraction |-> "Tourist Attraction", museum |-> "Museum",
     amusement_park |-> "Amusement Park", zoo |-> "Zoo", aquarium |-> "Aquarium",
     art_gallery |-> "Art Gallery", park |-> "Park",
     natural_feature |-> "Natural Feature",
     point_of_interest |-> "Point of Interest"]

\* getPlaceType: the label of the first of the place's types the map knows.
getPlaceType(place) ==
    LET known == {k \in DOMAIN place.types : place.types[k] \in DOMAIN typeMap}
    IN IF known = {} THEN "Attraction"
       ELSE typeMap[place.types[CHOOSE k \in known : \A j \in known : k <= j]]

includes(types, type) == \E k \in DOMAIN types : types[k] = type

\* generateHighlights with the type-specific pair pushed first.
generateHighlightsSpecificFirst(place) ==
    LET rated == IF place.rating /= NoRating /\ place.rating >= 45
                 THEN <<"Highly rated destination">> ELSE << >>
        popular == IF place.user_ratings_total /= NoCount
                      /\ place.user_ratings_total > 100
                   THEN <<"Popular with visitors">> ELSE << >>
        photo == IF Len(place.photos) > 0
                 THEN <<"Photo-worthy location">> ELSE << >>
        specific ==
            IF includes(place.types, "museum")
            THEN <<"Educational experience", "Cultural significance">>
            ELSE IF includes(place.types, "park")
            THEN <<"Outdoor activities", "Nature experience">>
            ELSE IF includes(place.types, "tourist_attraction")
            THEN <<"Must-see destination", "Local landmark">>
            ELSE << >>
        highlights == specific \o rated \o popular \o photo
    IN SubSeq(highlights, 1, IF Len(highlights) < 3 THEN Len(highlights) ELSE 3)

\* generateHighlights: the candidates in the order they are pushed, cut to 3.
generateHighlights(place) ==
    LET rated == IF place.rating /= NoRating /\ place.rating /= 0 /\ place.rating >= 45
                 THEN <<"Highly rated destination">> ELSE << >>
        popular == IF place.user_ratings_total /= NoCount
                      /\ place.user_ratings_total /= 0
                      /\ place.user_ratings_total > 100
                   THEN <<"Popular with visitors">> ELSE << >>
        photo == IF Len(place.photos) > 0
                 THEN <<"Photo-worthy location">> ELSE << >>
        specific ==
            IF includes(place.types, "museum")
            THEN <<"Educational experience", "Cultural significance">>
            ELSE IF includes(place.types, "park")
            THEN <<"Outdoor activities", "Nature experience">>
            ELSE IF includes(place.types, "tourist_attraction")
            THEN <<"Must-see destination", "Local landmark">>
            ELSE << >>
        highlights == rated \o popular \o photo \o specific
    IN SubSeq(highlights, 1, IF Len(highlights) < 3 THEN Len(highlights) ELSE 3)

\* determineBestFor without the cut to 2.
determineBestForUncut(place) ==
    LET culture == IF includes(place.types, "museum")
                      \/ includes(place.types, "art_gallery")
                   THEN <<"Culture enthusiasts", "History buffs">> ELSE << >>
        nature == IF includes(place.types, "park")
                     \/ includes(place.types, "natural_feature")
                  THEN <<"Nature lovers", "Outdoor activities">> ELSE << >>
        family == IF includes(place.types, "amusement_park")
                     \/ includes(place.types, "zoo")
                  THEN <<"Families", "Adventure seekers">> ELSE << >>
        sights == IF includes(place.types, "tourist_attraction")
                  THEN <<"First-time visitors", "Sightseeing">> ELSE << >>
        pushed == culture \o nature \o family \o sights
    IN IF Len(pushed) = 0 THEN <<"All travelers", "Local exploration">> ELSE pushed

\* determineBestFor: the pairs of the groups the place's types fall in, in
\* the order they are pushed, or the default pair; cut to 2.
determineBestFor(place) ==
    LET culture == IF includes(place.types, "museum")
                      \/ includes(place.types, "art_gallery")
                   THEN <<"Culture enthusiasts", "History buffs">> ELSE << >>
        nature == IF includes(place.types, "park")
                     \/ includes(place.types, "natural_feature")
                  THEN <<"Nature lovers", "Outdoor activities">> ELSE << >>
        family == IF includes(place.types, "amusement_park")
                     \/ includes(place.types, "zoo")
                  THEN <<"Families", "Adventure seekers">> ELSE << >>
        sights == IF includes(place.types, "tourist_attraction")
                  THEN <<"First-time visitors", "Sightseeing">> ELSE << >>
        pushed == culture \o nature \o family \o sights
        bestFor == IF Len(pushed) = 0
                   THEN <<"All travelers", "Local exploration">> ELSE pushed
    IN SubSeq(bestFor, 1, 2)

\* Where a suggestion's distance (and with it its travel time) comes from.
RandomDistance == "Math.random() * 20 + 1"
ComputedDistance == "calculateDistance(user, place)"
DefaultDistance == "5.0km"

\* distanceStr with metres up to and including 1 km.
distanceStrInclusive(metres) ==
    IF metres <= 1000 THEN ToString(metres) \o "m"
    ELSE LET tenths == (metres + 50) \div 100
         IN ToString(tenths \div 10) \o "." \o ToString(tenths % 10) \o "km"

\* distanceStr of a distance given in metres: Math.round(distanceKm * 1000)
\* and "m" below 1 km, distanceKm.toFixed(1) and "km" from 1 km on.
distanceStr(metres) ==
    IF metres < 1000 THEN ToString(metres) \o "m"
    ELSE LET tenths == (metres + 50) \div 100
         IN ToString(tenths \div 10) \o "." \o ToString(tenths % 10) \o "km"

\* travelTimeMinutes: Math.round(distanceKm * 12).
travelTimeMinutes(metres) == (12 * metres + 500) \div 1000

\* travelTimeStr, with the hours taken by Math.round.
travelTimeStr(minutes) ==
    IF minutes < 60 THEN ToString(minutes) \o "min"
    ELSE ToString((minutes + 30) \div 60) \o "h " \o ToString(minutes % 60) \o "min"

\* travelTimeMinutes of the second places service: Math.round((distanceKm / 40) * 60).
travelTimeMinutesAt(metres) == (3 * metres + 1000) \div 2000

\* travelTimeStr of the second places service, with the hours taken by Math.floor.
travelTimeStrAt(minutes) ==
    IF minutes < 60 THEN ToString(minutes) \o "min"
    ELSE ToString(minutes \div 60) \o "h " \o ToString(minutes % 60) \o "min"

\* mapPlaceToSuggestion: id, name, distance, type, rating (place.rating ||
\* 4.0) and photos (at most 3) of the suggestion; the distance is random.
mapPlaceToSuggestion(place) ==
    [id |-> place.place_id,
     name |-> place.name,
     distance |-> RandomDistance,
     travelTime |-> RandomDistance,
     type |-> getPlaceType(place),
     highlights |-> generateHighlights(place),
     bestFor |-> determineBestFor(place),
     rating |-> IF place.rating = NoRating \/ place.rating = 0 THEN 40
                ELSE place.rating,
     photos |-> SubSeq(place.photos, 1,
                       IF Len(place.photos) < 3 THEN Len(place.photos) ELSE 3)]

RECURSIVE filter(_)
filter(places) ==
    IF places = << >> THEN << >>
    ELSE IF isValidTravelDestination(Head(places))
         THEN <<Head(places)>> \o filter(Tail(places))
         ELSE filter(Tail(places))

slice(seq, n) == SubSeq(seq, 1, IF Len(seq) < n THEN Len(seq) ELSE n)

SliceLimit == 8

\* convertToTravelSuggestions: filter, slice(0, 8), map.
convertToTravelSuggestions(places) ==
    LET kept == slice(filter(places), SliceLimit)
    IN [k \in DOMAIN kept |-> mapPlaceToSuggestion(kept[k])]

\* An optional number argument: left out, or a number.
NoCoordinate == [known |-> FALSE, value |-> 0]
Coordinate(v) == [known |-> TRUE, value |-> v]
Coordinates == {NoCoordinate, Coordinate(0), Coordinate(48)}

\* JavaScript truthiness of an optional number: undefined and 0 are falsy.
Truthy(c) == c.known /\ c.value /= 0

\* mapPlaceToSuggestion(place, userLat, userLng) of the second places service:
\* the distance is computed when userLat && userLng && place.geometry, and is
\* the default 5 km otherwise.
mapPlaceToSuggestionAt(place, userLat, userLng) ==
    [id |-> place.place_id,
     name |-> place.name,
     distance |-> IF Truthy(userLat) /\ Truthy(userLng) /\ place.geometry
                  THEN ComputedDistance ELSE DefaultDistance,
     travelTime |-> IF Truthy(userLat) /\ Truthy(userLng) /\ place.geometry
                    THEN ComputedDistance ELSE "8min",
     type |-> getPlaceType(place),
     highlights |-> generateHighlights(place),
     bestFor |-> determineBestFor(place),
     rating |-> IF place.rating = NoRating \/ place.rating = 0 THEN 40
                ELSE place.rating,
     photos |-> SubSeq(place.photos, 1,
                       IF Len(place.photos) < 3 THEN Len(place.photos) ELSE 3)]

RankLimit == 6

\* convertToTravelSuggestions(places, userLat, userLng) of the second places
\* service: filter, map, slice(0, 6).
convertToTravelSuggestionsAt(ps, userLat, userLng) ==
    LET kept == filter(ps)
    IN slice([k \in DOMAIN kept |-> mapPlaceToSuggestionAt(kept[k], userLat, userLng)],
             RankLimit)

\* getFallbackSuggestions built through mapPlaceToSuggestion from places
\* without a rating: every rating is the default 4.0.
getFallbackSuggestionsMapped ==
    <<[id |-> "fallback-1", name |-> "Local Discovery Walk", distance |-> "2.5km",
       type |-> "Walking Tour", rating |-> 40, photos |-> << >>],
      [id |-> "fallback-2", name |-> "Historic Downtown", distance |-> "5.1km",
       type |-> "Historic District", rating |-> 40, photos |-> << >>],
      [id |-> "fallback-3", name |-> "City Park & Gardens", distance |-> "3.8km",
       type |-> "Park", rating |-> 40, photos |-> << >>]>>

\* getFallbackSuggestions: the static list (ratings in tenths).
getFallbackSuggestions ==
    <<[id |-> "fallback-1", name |-> "Local Discovery Walk", distance |-> "2.5km",
       type |-> "Walking Tour", rating |-> 42, photos |-> << >>],
      [id |-> "fallback-2", name |-> "Historic Downtown", distance |-> "5.1km",
       type |-> "Historic District", rating |-> 45, photos |-> << >>],
      [id |-> "fallback-3", name |-> "City Park & Gardens", distance |-> "3.8km",
       type |-> "Park", rating |-> 43, photos |-> << >>]>>

NoSearch == [pc |-> "idle", latitude |-> NaN, longitude |-> NaN]
NoAnswer == [status |-> 0, suggestions |-> << >>]
Error(code) == [status |-> code, suggestions |-> << >>]
List(suggestions) == [status |-> 200, suggestions |-> suggestions]

\* GET /api/location-suggestions up to the fetch of searchNearbyPlaces: 400
\* for a missing or empty lat or lng and for one parseFloat reads as NaN; the
\* fallback list when no API key is configured.
SuggestStart(lat, lng) ==
    /\ search.pc = "idle"
    /\ LET latitude == parseFloat(lat.text)
           longitude == parseFloat(lng.text)
       IN IF ~lat.present \/ lat.text = << >> \/ ~lng.present \/ lng.text = << >>
          THEN sres' = Error(400) /\ UNCHANGED search
          ELSE IF latitude = NaN \/ longitude = NaN
          THEN sres' = Error(400) /\ UNCHANGED search
          ELSE IF ~API_KEY
          THEN sres' = List(getFallbackSuggestions) /\ UNCHANGED search
          ELSE /\ search' = [pc |-> "searching", latitude |-> latitude,
                             longitude |-> longitude]
               /\ UNCHANGED sres
    /\ UNCHANGED API_KEY

\* The fetch settles: the suggestions of the places found, or the fallback
\* list when searchNearbyPlaces threw.
SearchReturn(outcome) ==
    /\ search.pc = "searching"
    /\ LET found == searchNearbyPlaces(outcome) IN
       sres' = IF found.ok THEN List(convertToTravelSuggestions(found.places))
               ELSE List(getFallbackSuggestions)
    /\ search' = NoSearch
    /\ UNCHANGED API_KEY

\* ------------------------------------------------- the places service, called
\* What a call on the places service returned, and which method it was.
NotCalled == [by |-> "none", known |-> FALSE, list |-> << >>]
Called(by, known, list) == [by |-> by, known |-> known, list |-> list]

\* One more raw place arrives in the provider's answer.
AddPlace(place) ==
    /\ returned = NotCalled
    /\ Len(rawPlaces) < MaxInput
    /\ rawPlaces' = Append(rawPlaces, place)
    /\ UNCHANGED returned

\* The route, holding the requester's latitude and longitude, calls
\* convertToTravelSuggestions(places) of the service it imports.
RouteConverts ==
    /\ returned = NotCalled
    /\ returned' = Called("route", TRUE, convertToTravelSuggestions(rawPlaces))
    /\ UNCHANGED rawPlaces

\* convertToTravelSuggestions(places, userLat, userLng) of the second places
\* service is called.
ServiceConverts(userLat, userLng) ==
    /\ returned = NotCalled
    /\ returned' = Called("service", userLat.known /\ userLng.known,
                             convertToTravelSuggestionsAt(rawPlaces, userLat, userLng))
    /\ UNCHANGED rawPlaces

\* Raw places of every shape the mapping looks at.
TypeLists ==
    {<<"museum", "park">>, <<"park", "museum", "tourist_attraction">>,
     <<"tourist_attraction">>, <<"zoo", "art_gallery">>, <<"restaurant">>,
     <<"natural_feature", "amusement_park", "tourist_attraction">>,
     <<"establishment">>}
Ratings == {NoRating, 0, 44, 45}
Counts == {NoCount, 100, 101}
Photos == {<< >>, <<"ph1">>, <<"ph1", "ph2", "ph3", "ph4">>}
MappedPlaces ==
    {[Place("p", types, rating) EXCEPT !.user_ratings_total = total, !.photos = photos] :
        types \in TypeLists, rating \in Ratings, total \in Counts, photos \in Photos}

\* Distances in metres; Math.random() * 20 + 1 lies in [1, 21) km.
Distances == {0, 400, 999, 1000, 1049, 7500, 9999, 20999, 40000, 61000}
RandomDistances == {d \in Distances : 1000 <= d /\ d < 21000}

\* The provider's answer holds one place.
PlaceFound(place) ==
    /\ rawPlaces = << >>
    /\ returned = NotCalled
    /\ rawPlaces' = <<place>>
    /\ UNCHANGED returned

\* mapPlaceToSuggestion(place) of the service the route imports, Math.random
\* giving the distance.
RouteMaps(metres) ==
    /\ rawPlaces /= << >>
    /\ returned = NotCalled
    /\ returned' = Called("route", TRUE,
          <<[mapPlaceToSuggestion(rawPlaces[1]) EXCEPT
                !.distance = distanceStr(metres),
                !.travelTime = travelTimeStr(travelTimeMinutes(metres))]>>)
    /\ UNCHANGED rawPlaces

\* mapPlaceToSuggestion(place, userLat, userLng) of the second places service,
\* calculateDistance giving the distance when it is called.
ServiceMaps(userLat, userLng, metres) ==
    /\ rawPlaces /= << >>
    /\ returned = NotCalled
    /\ LET suggestion == mapPlaceToSuggestionAt(rawPlaces[1], userLat, userLng)
           distanceM == IF suggestion.distance = ComputedDistance THEN metres ELSE 5000
       IN returned' = Called("service", userLat.known /\ userLng.known,
             <<[suggestion EXCEPT
                   !.distance = distanceStr(distanceM),
                   !.travelTime = travelTimeStrAt(travelTimeMinutesAt(distanceM))]>>)
    /\ UNCHANGED rawPlaces

\* The route calls getFallbackSuggestions().
RouteFallsBack ==
    /\ returned = NotCalled
    /\ returned' = Called("fallback", TRUE, getFallbackSuggestions)
    /\ UNCHANGED rawPlaces

\* ------------------------------------------- the collaborators, invocations
Counted(counter, key, n) == [counter EXCEPT ![key] = @ + n]

\* The generate route up to its one call generateItinerary(...): the request
\* and the invocation are counted when the handler reaches the call.
GenerateCalls(user, id) ==
    /\ asked.generate < MaxCalls
    /\ GenerateStart(user, id)
    /\ LET invoked == IF reqs' /= reqs THEN 1 ELSE 0
       IN /\ asked' = Counted(asked, "generate", invoked)
          /\ calls' = Counted(calls, "generate", invoked)

\* The generate route whose catch block calls generateItinerary a second time.
GenerateSettlesRetrying(h, outcome) ==
    IF h \in InFlight /\ h.pc = "generating" /\ ~generateItinerary(outcome).ok
    THEN /\ calls' = Counted(calls, "generate", 1)
         /\ UNCHANGED <<itineraryVars, asked>>
    ELSE GenerateReturn(h, outcome) /\ UNCHANGED <<asked, calls>>

\* The call settles; try and catch hold no second call of generateItinerary.
GenerateSettles(h, outcome) ==
    GenerateReturn(h, outcome) /\ UNCHANGED <<asked, calls>>

\* The suggestions route up to the one fetch of searchNearbyPlaces.
SearchCalls(lat, lng) ==
    /\ asked.search < MaxCalls
    /\ SuggestStart(lat, lng)
    /\ LET invoked == IF search'.pc = "searching" THEN 1 ELSE 0
       IN /\ asked' = Counted(asked, "search", invoked)
          /\ calls' = Counted(calls, "search", invoked)

\* The fetch settles; the catch blocks hold no second fetch.
SearchSettles(outcome) ==
    SearchReturn(outcome) /\ UNCHANGED <<asked, calls>>

\* ------------------------------------------- LocationSuggestions component
\* The client component LocationSuggestions, in its two versions: the one that
\* asks the backend for suggestions and the one that makes them up itself.
\* A callback, promise continuation or timer runs atomically; tasks is the bag
\* of those that are pending.
VARIABLES
    component,            \* which version is mounted, or none
    geolocation,          \* navigator.geolocation is there
    isLoadingLocation,    \* useState(false)
    isLoadingSuggestions, \* useState(false)
    error,                \* useState(""): the message shown, by its cause
    locationName,         \* useState("")
    tasks,                \* pending callbacks, promises and timers
    clicks                \* invocations of getCurrentLocation so far

clientVars == <<component, geolocation, isLoadingLocation, isLoadingSuggestions,
                error, locationName, tasks, clicks>>
serverVars == <<itineraryVars, geoVars, rankerVars, callVars>>
vars == <<itineraries, currentItineraryId, now, reqs, res, before,
          API_KEY, search, sres, rawPlaces, returned, asked, calls,
          component, geolocation, isLoadingLocation, isLoadingSuggestions,
          error, locationName, tasks, clicks>>

MaxClicks == 2        \* invocations of getCurrentLocation in one behaviour

Components == {"backend", "mock"}
Position == "getCurrentPosition"
Geocode == "getLocationName"
Request == "apiRequest"
Timer == "setTimeout"

Pending(task) == task \in BagToSet(tasks)
Started(task) == tasks (+) SetToBag({task})
Replaced(task, next) == (tasks (-) SetToBag({task})) (+) SetToBag({next})
Done(task) == tasks (-) SetToBag({task})

\* No component is mounted.
Unmounted ==
    /\ component = "none"
    /\ geolocation = FALSE
    /\ isLoadingLocation = FALSE
    /\ isLoadingSuggestions = FALSE
    /\ error = ""
    /\ locationName = ""
    /\ tasks = EmptyBag
    /\ clicks = 0

\* The component after its first render and its mount effect, which calls
\* loadPopularDestinations (loadDefaultSuggestions).
Mounted ==
    /\ component \in Components
    /\ geolocation \in BOOLEAN
    /\ isLoadingLocation = FALSE
    /\ isLoadingSuggestions = TRUE
    /\ error = ""
    /\ locationName = ""
    /\ tasks = SetToBag({Timer})
    /\ clicks = 0

\* The button's onClick; the button is disabled while isLoadingLocation.
getCurrentLocation ==
    /\ component \in Components
    /\ ~isLoadingLocation
    /\ clicks < MaxClicks
    /\ clicks' = clicks + 1
    /\ IF ~geolocation
       THEN /\ error' = "unsupported"
            /\ isLoadingLocation' = FALSE
            /\ UNCHANGED tasks
       ELSE /\ error' = ""
            /\ isLoadingLocation' = TRUE
            /\ tasks' = Started(Position)
    /\ UNCHANGED <<component, geolocation, isLoadingSuggestions, locationName>>

\* The success callback of getCurrentPosition, up to its first await.
PositionFound ==
    /\ Pending(Position)
    /\ tasks' = Replaced(Position, Geocode)
    /\ UNCHANGED <<component, geolocation, isLoadingLocation, isLoadingSuggestions,
                   error, locationName, clicks>>

\* The error callback of getCurrentPosition (denied, unavailable or timed
\* out), with the loadPopularDestinations it calls.
PositionDenied ==
    /\ Pending(Position)
    /\ error' = "denied"
    /\ isLoadingLocation' = FALSE
    /\ isLoadingSuggestions' = TRUE
    /\ tasks' = Replaced(Position, Timer)
    /\ UNCHANGED <<component, geolocation, locationName, clicks>>

\* getLocationName catches every failure of the reverse geocoding and
\* resolves with the place's name or with "Unknown Location".
LocationNames == {"Oslo", "Unknown Location"}

\* The success callback resumes with the name: the backend version starts
\* loadRealSuggestions; the other version runs loadSuggestions, which starts a
\* timer, and lowers isLoadingLocation.
LocationNamed(name) ==
    /\ Pending(Geocode)
    /\ locationName' = name
    /\ isLoadingSuggestions' = TRUE
    /\ IF component = "backend"
       THEN /\ error' = ""
            /\ tasks' = Replaced(Geocode, Request)
            /\ UNCHANGED isLoadingLocation
       ELSE /\ tasks' = Replaced(Geocode, Timer)
            /\ isLoadingLocation' = FALSE
            /\ UNCHANGED error
    /\ UNCHANGED <<component, geolocation, clicks>>

\* What the backend request of loadRealSuggestions comes to.
RequestOutcomes == {"suggestions", "empty", "rejected"}

\* loadRealSuggestions whose finally block is missing: isLoadingSuggestions is
\* left as the try and catch blocks leave it.
loadRealSuggestionsWithoutFinally(outcome) ==
    /\ Pending(Request)
    /\ isLoadingLocation' = FALSE
    /\ IF outcome = "suggestions"
       THEN /\ tasks' = Done(Request)
            /\ UNCHANGED <<error, isLoadingSuggestions>>
       ELSE /\ error' = IF outcome = "empty" THEN "none found" ELSE "failed"
            /\ tasks' = Replaced(Request, Timer)
            /\ isLoadingSuggestions' = TRUE
    /\ UNCHANGED <<component, geolocation, locationName, clicks>>

\* loadRealSuggestions after its await: a list is shown; an empty list and a
\* failure call loadPopularDestinations, which starts a timer; every path
\* lowers isLoadingLocation, and the finally block lowers isLoadingSuggestions.
loadRealSuggestions(outcome) ==
    /\ Pending(Request)
    /\ isLoadingLocation' = FALSE
    /\ isLoadingSuggestions' = FALSE
    /\ IF outcome = "suggestions"
       THEN /\ tasks' = Done(Request)
            /\ UNCHANGED error
       ELSE /\ error' = IF outcome = "empty" THEN "none found" ELSE "failed"
            /\ tasks' = Replaced(Request, Timer)
    /\ UNCHANGED <<component, geolocation, locationName, clicks>>

\* A setTimeout callback of loadPopularDestinations, loadDefaultSuggestions or
\* loadSuggestions.
TimerFires ==
    /\ Pending(Timer)
    /\ tasks' = Done(Timer)
    /\ isLoadingSuggestions' = FALSE
    /\ UNCHANGED <<component, geolocation, isLoadingLocation, error,
                   locationName, clicks>>

\* ----------------------------------------------------------- specification
ItineraryInit ==
    /\ itineraries = << >>
    /\ currentItineraryId = 1
    /\ now = 0
    /\ reqs = EmptyBag
    /\ res = NoResponse
    /\ before = NoRow

NoCalls == [generate |-> 0, search |-> 0]

\* Nothing has called the places service or a collaborator yet.
IdleInit ==
    /\ rawPlaces = << >>
    /\ returned = NotCalled
    /\ asked = NoCalls
    /\ calls = NoCalls

Init ==
    /\ ItineraryInit
    /\ Unmounted
    /\ API_KEY = FALSE
    /\ search = NoSearch
    /\ sres = NoAnswer
    /\ IdleInit

Next ==
    \/ \E op \in Routes, id \in Ids : Unauthenticated(op, id)
          /\ UNCHANGED <<geoVars, rankerVars, callVars, clientVars>>
    \/ \E user \in Users, id \in Ids : GetItinerary(user, id)
          /\ UNCHANGED <<geoVars, rankerVars, callVars, clientVars>>
    \/ \E user \in Users, body \in CreateBodies : PostItinerary(user, body)
          /\ UNCHANGED <<geoVars, rankerVars, callVars, clientVars>>
    \/ \E user \in Users, id \in Ids : GenerateStart(user, id)
          /\ UNCHANGED <<geoVars, rankerVars, callVars, clientVars>>
    \/ \E h \in InFlight, outcome \in CollaboratorOutcomes : GenerateReturn(h, outcome)
          /\ UNCHANGED <<geoVars, rankerVars, callVars, clientVars>>
    \/ \E h \in InFlight : GeneratePersist(h)
          /\ UNCHANGED <<geoVars, rankerVars, callVars, clientVars>>
    \/ \E user \in Users, id \in Ids, body \in UpdateBodies : PutStart(user, id, body)
          /\ UNCHANGED <<geoVars, rankerVars, callVars, clientVars>>
    \/ \E h \in InFlight : PutPersist(h)
          /\ UNCHANGED <<geoVars, rankerVars, callVars, clientVars>>
    \/ \E user \in Users, id \in Ids : DeleteStart(user, id)
          /\ UNCHANGED <<geoVars, rankerVars, callVars, clientVars>>
    \/ \E h \in InFlight : DeletePersist(h)
          /\ UNCHANGED <<geoVars, rankerVars, callVars, clientVars>>

\* The itinerary routes over the storage.
Spec == Init /\ [][Next]_vars

GeoInit ==
    /\ ItineraryInit
    /\ Unmounted
    /\ API_KEY \in BOOLEAN
    /\ search = NoSearch
    /\ sres = NoAnswer
    /\ IdleInit

GeoNext ==
    \/ \E lat \in Queries, lng \in Queries :
          SuggestStart(lat, lng)
          /\ UNCHANGED <<itineraryVars, rankerVars, callVars, clientVars>>
    \/ \E outcome \in SearchOutcomes :
          SearchReturn(outcome)
          /\ UNCHANGED <<itineraryVars, rankerVars, callVars, clientVars>>

\* The location-suggestions route over the place-search collaborator.
GeoSpec == GeoInit /\ [][GeoNext]_vars

RankerNext ==
    \/ \E place \in Places : AddPlace(place)
          /\ UNCHANGED <<itineraryVars, geoVars, callVars, clientVars>>
    \/ RouteConverts
          /\ UNCHANGED <<itineraryVars, geoVars, callVars, clientVars>>
    \/ \E userLat \in Coordinates, userLng \in Coordinates :
          ServiceConverts(userLat, userLng)
          /\ UNCHANGED <<itineraryVars, geoVars, callVars, clientVars>>
    \/ RouteFallsBack
          /\ UNCHANGED <<itineraryVars, geoVars, callVars, clientVars>>

MapperNext ==
    \/ \E place \in MappedPlaces : PlaceFound(place)
          /\ UNCHANGED <<itineraryVars, geoVars, callVars, clientVars>>
    \/ \E metres \in RandomDistances : RouteMaps(metres)
          /\ UNCHANGED <<itineraryVars, geoVars, callVars, clientVars>>
    \/ \E userLat \in Coordinates, userLng \in Coordinates, metres \in Distances :
          ServiceMaps(userLat, userLng, metres)
          /\ UNCHANGED <<itineraryVars, geoVars, callVars, clientVars>>

\* mapPlaceToSuggestion of both places services as a function of one raw place.
MapperSpec == Init /\ [][MapperNext]_vars

\* The places services as pure functions of the raw places they are handed.
RankerSpec == Init /\ [][RankerNext]_vars

\* One accepted and one refused value of lat and lng.
CountedQueries == {Text(<<"0">>), Text(<<"a", "b">>)}

\* The provider's answers with at most one place.
CountedOutcomes == {o \in SearchOutcomes : Len(o.results) <= 1}

CollaboratorInit ==
    /\ ItineraryInit
    /\ Unmounted
    /\ API_KEY = TRUE
    /\ search = NoSearch
    /\ sres = NoAnswer
    /\ IdleInit

CollaboratorNext ==
    \/ \E user \in Users : PostItinerary(user, CreateBody("t1", Absent, Absent))
          /\ UNCHANGED <<geoVars, rankerVars, callVars, clientVars>>
    \/ \E user \in Users, id \in Ids : GenerateCalls(user, id)
          /\ UNCHANGED <<geoVars, rankerVars, clientVars>>
    \/ \E h \in InFlight, outcome \in CollaboratorOutcomes : GenerateSettles(h, outcome)
          /\ UNCHANGED <<geoVars, rankerVars, clientVars>>
    \/ \E h \in InFlight : GeneratePersist(h)
          /\ UNCHANGED <<geoVars, rankerVars, callVars, clientVars>>
    \/ \E lat \in CountedQueries, lng \in CountedQueries : SearchCalls(lat, lng)
          /\ UNCHANGED <<itineraryVars, rankerVars, clientVars>>
    \/ \E outcome \in CountedOutcomes : SearchSettles(outcome)
          /\ UNCHANGED <<itineraryVars, rankerVars, clientVars>>

\* The generate and suggestions routes with their collaborators' invocations
\* counted.
CollaboratorSpec == CollaboratorInit /\ [][CollaboratorNext]_vars

ClientInit ==
    /\ ItineraryInit
    /\ API_KEY = FALSE
    /\ search = NoSearch
    /\ sres = NoAnswer
    /\ IdleInit
    /\ Mounted

ClientNext ==
    \/ getCurrentLocation /\ UNCHANGED serverVars
    \/ PositionFound /\ UNCHANGED serverVars
    \/ PositionDenied /\ UNCHANGED serverVars
    \/ \E name \in LocationNames : LocationNamed(name) /\ UNCHANGED serverVars
    \/ \E outcome \in RequestOutcomes : loadRealSuggestions(outcome) /\ UNCHANGED serverVars
    \/ TimerFires /\ UNCHANGED serverVars

\* Every pending callback, promise and timer eventually runs; nothing makes
\* the user press the button.
ClientFairness ==
    /\ WF_vars((PositionFound \/ PositionDenied) /\ UNCHANGED serverVars)
    /\ WF_vars(\E name \in LocationNames : LocationNamed(name) /\ UNCHANGED serverVars)
    /\ WF_vars(\E outcome \in RequestOutcomes :
                  loadRealSuggestions(outcome) /\ UNCHANGED serverVars)
    /\ WF_vars(TimerFires /\ UNCHANGED serverVars)

\* The LocationSuggestions component with its browser and backend.
ClientSpec == ClientInit /\ [][ClientNext]_vars /\ ClientFairness

\* ------------------------------------------------------------------ claims
Statuses == {"draft", "generated", "saved"}

WellFormed(text) ==
    text = EmptyObjectText \/ \E t \in PayloadTitles : text = ObjectText(t)

\* The collaborator threw, answered non-2xx, or sent a content that is there
\* and is no JSON.
FailingOutcomes ==
    {o \in CollaboratorOutcomes :
        \/ o.kind \in {"network_error", "http_error"}
        \/ o.kind = "content" /\ o.text /= EmptyText /\ ~WellFormed(o.text)}

\* The collaborator sent a JSON object.
ObjectOutcomes == {o \in CollaboratorOutcomes : o.kind = "content" /\ WellFormed(o.text)}
ObjectOf(o) == IF o.text = EmptyObjectText THEN EmptyObject ELSE Payload(o.text[4])

\* The collaborator's content is missing, empty, or no JSON.
MalformedOutcomes ==
    {o \in CollaboratorOutcomes :
        \/ o.kind = "content_missing"
        \/ o.kind = "content" /\ ~WellFormed(o.text)}

\* This step answers a request (its handler's first step, or a resumed handler).
Answers ==
    \/ BagCardinality(reqs') < BagCardinality(reqs)
    \/ reqs' = reqs /\ res' /= res

\* Handler h ends in this step with the answer given.
Ends(h, answer) ==
    /\ reqs' = reqs (-) SetToBag({h})
    /\ res' = Response(h.op, h.user, h.itinerary.id, h.itinerary, answer)

C2_SuccessfulGenerationReplacesPayload ==
    [][\A h \in InFlight :
          /\ \A o \in ObjectOutcomes :
                GenerateReturn(h, o) =>
                    reqs' = (reqs (-) SetToBag({h})) (+)
                            SetToBag({[h EXCEPT !.pc = "persisting",
                                                !.data = GeneratedUpdates(ObjectOf(o))]})
          /\ ( /\ GeneratePersist(h)
               /\ h.itinerary.id \in DOMAIN itineraries
               /\ itineraries[h.itinerary.id].status \in {"draft", "generated"} )
             => LET row == itineraries'[h.itinerary.id] IN
                /\ row.status = "generated"
                /\ row.generatedContent = h.data.generatedContent
                /\ Ends(h, Json(200, row))]_vars

\* C2 witness: a generation succeeded on a record that was already generated
\* with another payload, which is gone.
C2_Witness ==
    /\ res.op = "generate" /\ res.status = 200 /\ IsRow(res.body)
    /\ IsRow(before) /\ before.status = "generated"
    /\ before.generatedContent = Payload("A")
    /\ res.body.generatedContent = Payload("B")
    /\ itineraries[res.id] = res.body

\* C3: whatever was written to the record since a generation request read it,
\* by another generation request too, its UPDATE leaves the record with its
\* own payload and status generated (the last UPDATE wins), and a generation
\* request that fails writes nothing, so the other request's row stays.
C3_LastPersistWins ==
    [][\A h \in InFlight :
          /\ ( /\ GeneratePersist(h)
               /\ h.itinerary.id \in DOMAIN itineraries
               /\ itineraries[h.itinerary.id].updatedAt > h.itinerary.updatedAt )
             => LET row == itineraries'[h.itinerary.id] IN
                /\ row.generatedContent = h.data.generatedContent
                /\ row.status = "generated"
                /\ row.updatedAt > itineraries[h.itinerary.id].updatedAt
          /\ ( /\ h.op = "generate" /\ h.pc = "generating"
               /\ h.itinerary.id \in DOMAIN itineraries
               /\ itineraries[h.itinerary.id].updatedAt > h.itinerary.updatedAt
               /\ reqs' = reqs (-) SetToBag({h}) )
             => itineraries' = itineraries]_vars

\* C3 witness: two generation requests read the same draft; the first wrote its
\* payload, and then the second, which had read the draft, wrote another one,
\* which the record holds.
C3_Witness ==
    /\ res.op = "generate" /\ res.status = 200 /\ IsRow(res.body)
    /\ res.read.status = "draft"
    /\ IsRow(before) /\ before.status = "generated"
    /\ before.updatedAt > res.read.updatedAt
    /\ before.generatedContent /= res.body.generatedContent
    /\ itineraries[res.id] = res.body

\* C4: the status of every stored record is one of draft, generated, saved.
C4_StatusInEnum ==
    \A i \in DOMAIN itineraries : itineraries[i].status \in Statuses

\* C5: a record's status becomes generated only in a step that answers a
\* generation request with 200.
C5_GeneratedOnlyByGeneration ==
    [][\A i \in DOMAIN itineraries' :
          ( /\ itineraries'[i].status = "generated"
            /\ (i \in DOMAIN itineraries => itineraries[i].status /= "generated") )
          => res'.op = "generate" /\ res'.status = 200]_vars

\* C6: a created record has status draft and a null generatedContent, whatever
\* the request body carried.
C6_CreatedAsDraft ==
    (res.op = "create" /\ res.status = 201) =>
        /\ IsRow(res.body)
        /\ res.body.status = "draft"
        /\ res.body.generatedContent = Null
        /\ res.body.id \in DOMAIN itineraries
        /\ itineraries[res.body.id] = res.body

\* C6 witness: a record has been created.
C6_Witness ==
    /\ res.op = "create" /\ res.status = 201 /\ IsRow(res.body)
    /\ before = NoRow
    /\ res.body.id \in DOMAIN itineraries

\* C7: every answer to a generation request is a 200 with the updated record
\* (status generated, a payload), or a failure status with no record changed.
C7_GenerateAnswers ==
    [][(Answers /\ res'.op = "generate") =>
          \/ /\ res'.status = 200
             /\ IsRow(res'.body)
             /\ res'.body.status = "generated"
             /\ res'.body.generatedContent /= Null
             /\ res'.id \in DOMAIN itineraries'
             /\ itineraries'[res'.id] = res'.body
          \/ /\ res'.status \in {401, 403, 404, 500}
             /\ itineraries' = itineraries]_vars

Backward(old, new) ==
    \/ old = "saved" /\ new \in {"generated", "draft"}
    \/ old = "generated" /\ new = "draft"

\* C8: no step takes a record from saved back to generated or draft, or from
\* generated back to draft.
C8_StatusOnlyForward ==
    [][\A i \in DOMAIN itineraries \cap DOMAIN itineraries' :
          ~Backward(itineraries[i].status, itineraries'[i].status)]_vars

\* C9: a content that is missing, empty or no JSON makes the generation request
\* fail: it is answered 500, its handler ends, and no record changes.
C9_MalformedContentFails ==
    [][\A h \in InFlight, o \in MalformedOutcomes :
          GenerateReturn(h, o) =>
              /\ itineraries' = itineraries
              /\ Ends(h, Message(500))]_vars

\* The place search fails: no fetch result, a non-2xx answer, or a provider
\* status other than OK.
FailedSearches ==
    {o \in SearchOutcomes :
        o.kind \in {"network_error", "http_error", "body_not_json",
                    "ZERO_RESULTS", "REQUEST_DENIED"}}

FallbackIds == <<"fallback-1", "fallback-2", "fallback-3">>
IdsOf(suggestions) == [k \in DOMAIN suggestions |-> suggestions[k].id]

\* C10: a suggestions request with valid coordinates whose place search fails
\* (no API key, the fetch throws, a non-2xx answer, a provider status other
\* than OK) is answered 200 with the fallback list, ids fallback-1..3.
C10_FailedSearchFallsBack ==
    [][/\ \A o \in FailedSearches :
             SearchReturn(o) =>
                 /\ sres'.status = 200
                 /\ sres'.suggestions = getFallbackSuggestions
                 /\ IdsOf(sres'.suggestions) = FallbackIds
                 /\ search'.pc = "idle"
       /\ \A lat \in Queries, lng \in Queries :
             ( /\ SuggestStart(lat, lng) /\ ~API_KEY
               /\ lat.present /\ lng.present
               /\ parseFloat(lat.text) /= NaN /\ parseFloat(lng.text) /= NaN )
             => /\ sres'.status = 200
                /\ IdsOf(sres'.suggestions) = FallbackIds
                /\ search'.pc = "idle"]_vars

\* C10 witness: with an API key, a search failed and the fallback list was sent.
C10_Witness ==
    /\ API_KEY
    /\ search.pc = "idle"
    /\ sres.status = 200
    /\ IdsOf(sres.suggestions) = FallbackIds

\* The ten whitelisted category tags: the nine display types and establishment.
Whitelist ==
    {"tourist_attraction", "museum", "amusement_park", "zoo", "aquarium",
     "art_gallery", "park", "natural_feature", "point_of_interest",
     "establishment"}
Eligible(place) == \E k \in DOMAIN place.types : place.types[k] \in Whitelist

RECURSIVE EligibleIds(_)
EligibleIds(ps) ==
    IF ps = << >> THEN << >>
    ELSE IF Eligible(Head(ps)) THEN <<Head(ps).place_id>> \o EligibleIds(Tail(ps))
         ELSE EligibleIds(Tail(ps))

\* C11: when the place search succeeds with zero eligible places (no results,
\* or only places without a whitelisted tag) the suggestions request is
\* answered with the fallback list, and no 200 answer carries an empty list.
C11_NoEligiblePlaceFallsBack ==
    [][\A o \in SearchOutcomes :
          SearchReturn(o) =>
              /\ sres'.suggestions /= << >>
              /\ (o.kind \in {"OK", "OK_no_results"} /\ EligibleIds(o.results) = << >>)
                    => sres'.suggestions = getFallbackSuggestions]_vars

\* C12: the places service returns at most 6 suggestions, whatever the size
\* of the list of raw places.
C12_AtMostSixSuggestions ==
    returned.by \in {"route", "service"} => Len(returned.list) <= 6

\* C13: a raw place with none of the ten whitelisted tags has no suggestion in
\* the output, and every suggestion comes from an eligible raw place.
C13_IneligiblePlacesExcluded ==
    returned.by \in {"route", "service"} =>
        /\ \A k \in DOMAIN returned.list :
              \E j \in DOMAIN rawPlaces :
                  /\ rawPlaces[j].place_id = returned.list[k].id
                  /\ Eligible(rawPlaces[j])
        /\ \A j \in DOMAIN rawPlaces :
              ~Eligible(rawPlaces[j]) =>
                  \A k \in DOMAIN returned.list :
                      returned.list[k].id /= rawPlaces[j].place_id

\* C13 witness: the route's service was handed eligible places and places
\* without a whitelisted tag, and returned suggestions.
C13_Witness ==
    /\ returned.by = "route"
    /\ returned.list /= << >>
    /\ \E j \in DOMAIN rawPlaces : ~Eligible(rawPlaces[j])
    /\ \E j \in DOMAIN rawPlaces : Eligible(rawPlaces[j])

\* C14: the output is the first 6 eligible places of the input in input
\* order: its identifiers are the length-6 prefix of the eligible identifiers.
C14_FirstSixInInputOrder ==
    returned.by \in {"route", "service"} =>
        LET eligible == EligibleIds(rawPlaces)
        IN IdsOf(returned.list) =
               SubSeq(eligible, 1, IF Len(eligible) < 6 THEN Len(eligible) ELSE 6)

\* A query parameter that is present and is, as a whole, a decimal number.
Numeric(q) == q.present /\ q.text /= << >> /\ parseFloat(q.text) = q.text

\* C15: a suggestions request is answered 400, with no place search, exactly
\* when lat or lng is missing or is not numeric; a request with both present
\* and numeric is answered 200 with a suggestion list.
C15_BadRequestIffNotNumeric ==
    [][/\ \A lat \in Queries, lng \in Queries :
             SuggestStart(lat, lng) =>
                 /\ (Numeric(lat) /\ Numeric(lng))
                       <=> ~(sres'.status = 400 /\ search'.pc = "idle")
                 /\ (Numeric(lat) /\ Numeric(lng))
                       => (search'.pc = "searching" \/ sres'.status = 200)
       /\ \A o \in SearchOutcomes : SearchReturn(o) => sres'.status = 200]_vars

\* C16: no request is retried: each generation request invokes the generative
\* collaborator at most once and each suggestions request the place search at
\* most once; a failed generation is reported once (500), a failed place
\* search is masked by the fallback list.
C16_NoRetries ==
    [][/\ calls'.generate - calls.generate <= asked'.generate - asked.generate
       /\ calls'.search - calls.search <= asked'.search - asked.search
       /\ calls'.generate <= asked'.generate
       /\ calls'.search <= asked'.search
       /\ \A h \in InFlight, o \in FailingOutcomes :
             GenerateSettles(h, o) => Ends(h, Message(500))
       /\ \A o \in FailedSearches :
             SearchSettles(o) =>
                 /\ search'.pc = "idle"
                 /\ sres'.suggestions = getFallbackSuggestions]_vars

\* C16 witness: a generation failed and was answered 500 after one invocation,
\* and a place search failed and was answered with the fallback list.
C16_Witness ==
    /\ calls.generate = 1 /\ asked.generate = 1
    /\ res.op = "generate" /\ res.status = 500
    /\ reqs = EmptyBag
    /\ calls.search = 1 /\ asked.search = 1
    /\ search.pc = "idle"
    /\ sres.suggestions = getFallbackSuggestions

\* C17: the preference fields of a record (here its location) and its owner
\* never change after creation, whatever generate and PUT requests are made.
C17_PreferencesImmutable ==
    [][\A id \in DOMAIN itineraries \cap DOMAIN itineraries' :
          /\ itineraries'[id].location = itineraries[id].location
          /\ itineraries'[id].userId = itineraries[id].userId]_vars

\* C17 witness: a PUT whose body carried another location and another owner
\* was applied, and a generation was persisted on the same record.
C17_Witness ==
    /\ res.op = "generate" /\ res.status = 200
    /\ IsRow(res.body)
    /\ res.body.title = "t2"
    /\ res.body.status = "generated"
    /\ res.body.location = "Rome"

\* C18: getFallbackSuggestions returns, whatever the state and the input, the
\* same list of exactly 3 suggestions with ids fallback-1..3, non-null names,
\* ratings in [4.2, 4.5] and no photos.
C18_FallbackListIsFixed ==
    returned.by = "fallback" =>
        /\ Len(returned.list) = 3
        /\ IdsOf(returned.list) = FallbackIds
        /\ \A k \in DOMAIN returned.list :
              /\ returned.list[k].name \notin {Null, Absent, ""}
              /\ returned.list[k].rating \in 42..45
              /\ returned.list[k].photos = << >>

\* C18 witness: the fallback list was returned while raw places were at hand.
C18_Witness ==
    /\ returned.by = "fallback"
    /\ Len(rawPlaces) >= 2

\* The fixed priority order of the display types.
Priority ==
    <<"tourist_attraction", "museum", "amusement_park", "zoo", "aquarium",
      "art_gallery", "park", "natural_feature", "point_of_interest">>

\* The label of the place's tag of highest priority, or "Attraction".
DisplayType(place) ==
    LET tags == {place.types[k] : k \in DOMAIN place.types}
        hits == {k \in DOMAIN Priority : Priority[k] \in tags}
    IN IF hits = {} THEN "Attraction"
       ELSE typeMap[Priority[CHOOSE k \in hits : \A j \in hits : k <= j]]

\* C19: the display type of a suggestion is the label of its place's tag of
\* highest priority, whatever the order of the tags in the place's tag list,
\* and "Attraction" when no tag has a label.
C19_DisplayTypeByPriority ==
    returned.by \in {"route", "service"} =>
        \A k \in DOMAIN returned.list, j \in DOMAIN rawPlaces :
            rawPlaces[j].place_id = returned.list[k].id =>
                returned.list[k].type = DisplayType(rawPlaces[j])

\* C20: a suggestion made for a request whose requester coordinate is known
\* (a latitude or longitude of 0 included) carries a distance computed from
\* the requester's and the place's coordinates, never the fixed 5 km.
C20_DistanceFromKnownCoordinate ==
    (returned.by \in {"route", "service"} /\ returned.known) =>
        \A k \in DOMAIN returned.list :
            returned.list[k].distance = ComputedDistance

Mapped == returned.by \in {"route", "service"} /\ Len(rawPlaces) = 1 /\ Len(returned.list) = 1

\* C21: a suggestion's rating is the raw place's rating whenever the place has
\* one (0 included), and 4.0 only when the place has none.
C21_RatingKept ==
    Mapped =>
        returned.list[1].rating =
            IF rawPlaces[1].rating = NoRating THEN 40 ELSE rawPlaces[1].rating

Tagged(place, tag) == \E k \in DOMAIN place.types : place.types[k] = tag

\* The ordered candidate list of highlights.
Candidates(place) ==
    (IF place.rating >= 45 THEN <<"Highly rated destination">> ELSE << >>)
    \o (IF place.user_ratings_total > 100 THEN <<"Popular with visitors">> ELSE << >>)
    \o (IF place.photos /= << >> THEN <<"Photo-worthy location">> ELSE << >>)
    \o (CASE Tagged(place, "museum") ->
                <<"Educational experience", "Cultural significance">>
          [] ~Tagged(place, "museum") /\ Tagged(place, "park") ->
                <<"Outdoor activities", "Nature experience">>
          [] ~Tagged(place, "museum") /\ ~Tagged(place, "park")
                /\ Tagged(place, "tourist_attraction") ->
                <<"Must-see destination", "Local landmark">>
          [] OTHER -> << >>)

\* C22: the highlights are the first 3 entries of the ordered candidate list:
\* never more than 3, never reordered.
C22_HighlightsFirstThree ==
    Mapped =>
        LET candidates == Candidates(rawPlaces[1])
            highlights == returned.list[1].highlights
        IN /\ Len(highlights) <= 3
           /\ Len(highlights) = IF Len(candidates) < 3 THEN Len(candidates) ELSE 3
           /\ \A k \in DOMAIN highlights : highlights[k] = candidates[k]

\* C22 witness: a place with five candidates was mapped and three were kept.
C22_Witness ==
    /\ Mapped
    /\ Len(Candidates(rawPlaces[1])) = 5
    /\ returned.list[1].highlights =
          <<"Highly rated destination", "Popular with visitors", "Photo-worthy location">>

\* The audience groups in their fixed order, each with its pair.
Groups ==
    <<[tags |-> {"museum", "art_gallery"},
       pair |-> <<"Culture enthusiasts", "History buffs">>],
      [tags |-> {"park", "natural_feature"},
       pair |-> <<"Nature lovers", "Outdoor activities">>],
      [tags |-> {"amusement_park", "zoo"},
       pair |-> <<"Families", "Adventure seekers">>],
      [tags |-> {"tourist_attraction"},
       pair |-> <<"First-time visitors", "Sightseeing">>]>>
Matching(place) == {g \in DOMAIN Groups : \E t \in Groups[g].tags : Tagged(place, t)}

\* C23: the audience tags are at most 2, taken in the fixed group order; they
\* are the default pair exactly when no group matches, and never empty.
C23_BestForFirstGroup ==
    Mapped =>
        LET matching == Matching(rawPlaces[1])
            bestFor == returned.list[1].bestFor
        IN /\ Len(bestFor) \in 1..2
           /\ (bestFor = <<"All travelers", "Local exploration">>) <=> (matching = {})
           /\ matching /= {} =>
                 bestFor = Groups[CHOOSE g \in matching : \A f \in matching : g <= f].pair

\* C23 witness: a place in two groups was mapped and the first group's pair kept.
C23_Witness ==
    /\ Mapped
    /\ Matching(rawPlaces[1]) = {2, 3, 4}
    /\ returned.list[1].bestFor = <<"Nature lovers", "Outdoor activities">>

\* The travel-time string of m whole minutes.
Duration(m) ==
    IF m < 60 THEN ToString(m) \o "min"
    ELSE LET h == m \div 60
             r == m % 60
         IN ToString(h) \o "h " \o ToString(r) \o "min"

\* C24: the travel-time string of m minutes is "{m}min" below 60 and
\* "{floor(m/60)}h {m mod 60}min" from 60 on.
C24_TravelTimeString ==
    [][/\ \A metres \in RandomDistances :
             RouteMaps(metres) =>
                 returned'.list[1].travelTime = Duration(travelTimeMinutes(metres))
       /\ \A userLat \in Coordinates, userLng \in Coordinates, metres \in Distances :
             ServiceMaps(userLat, userLng, metres) =>
                 \E d \in {metres, 5000} :
                     returned'.list[1].travelTime = Duration(travelTimeMinutesAt(d))]_vars

\* A distance string in metres, and one in kilometres with one decimal.
InMetres(str, metres) == str = ToString(metres) \o "m"
InKilometres(str, metres) ==
    \E tenths \in {t \in (metres \div 100)..(metres \div 100 + 1) :
                      100 * t - metres \in -50..50} :
        str = ToString(tenths \div 10) \o "." \o ToString(tenths % 10) \o "km"
Formatted(str, metres) ==
    /\ InMetres(str, metres) <=> metres < 1000
    /\ metres >= 1000 => InKilometres(str, metres)

\* C25: the distance string is in metres (the rounded metres and "m") if and
\* only if the distance is below 1 km; from 1 km on it is in kilometres with
\* one decimal.
C25_MetresIffBelowOneKm ==
    [][/\ \A metres \in RandomDistances :
             RouteMaps(metres) => Formatted(returned'.list[1].distance, metres)
       /\ \A userLat \in Coordinates, userLng \in Coordinates, metres \in Distances :
             ServiceMaps(userLat, userLng, metres) =>
                 \E d \in {metres, 5000} : Formatted(returned'.list[1].distance, d)]_vars

\* C25 witness: a distance of 999 metres was written in metres.
C25_Witness ==
    /\ Mapped
    /\ returned.by = "service"
    /\ returned.list[1].distance = "999m"

\* What a route's first step does when it refuses the request.
Refused(code) ==
    /\ res'.status = code
    /\ itineraries' = itineraries
    /\ reqs' = reqs

\* The first step of a route on /api/itineraries/:id, made by an
\* authenticated caller.  The first three conjuncts follow from the fourth:
\* a first step writes nothing, and it either answers the caller or leaves
\* one more handler of the caller on that record in flight.
Starts(user, id) ==
    /\ now' = now
    /\ itineraries' = itineraries
    /\ \/ reqs' = reqs /\ res'.user = user /\ res'.id = id
       \/ /\ BagCardinality(reqs') > BagCardinality(reqs)
          /\ \E h \in BagToSet(reqs') : h.user = user /\ h.itinerary.id = id
    /\ \/ GetItinerary(user, id)
       \/ GenerateStart(user, id)
       \/ DeleteStart(user, id)
       \/ \E body \in UpdateBodies : PutStart(user, id, body)

\* C26: the generative collaborator is invoked and a record is read, modified
\* or deleted only for an authenticated request of the record's owner on an
\* existing record; an unauthenticated request gets 401, a missing record 404,
\* a non-owner 403, with no collaborator call and no record changed.
C26_OnlyTheOwner ==
    [][/\ (res'.user = NoUser /\ reqs' = reqs) =>
             \A op \in Routes, id \in Ids : Unauthenticated(op, id) => Refused(401)
       /\ \A id \in Ids \ DOMAIN itineraries, user \in Users :
             Starts(user, id) => Refused(404)
       /\ \A id \in DOMAIN itineraries :
             \A user \in Users \ {itineraries[id].userId} :
                 Starts(user, id) => Refused(403)
       /\ \A h \in BagToSet(reqs') :
             IsRow(h.itinerary) /\ h.itinerary.userId = h.user
       /\ \A id \in DOMAIN itineraries :
             (id \notin DOMAIN itineraries' \/ itineraries'[id] /= itineraries[id]) =>
                 \E h \in InFlight :
                     /\ h.itinerary.id = id
                     /\ h.user = itineraries[id].userId
                     /\ reqs' = reqs (-) SetToBag({h})
       /\ (res' /= res /\ IsRow(res'.body)) => res'.body.userId = res'.user]_vars

\* C26 witness: a generation request of another user on an existing record
\* was answered 403.
C26_Witness ==
    /\ res.op = "generate"
    /\ res.status = 403
    /\ IsRow(res.read)
    /\ res.read.userId /= res.user
    /\ res.read.id \in DOMAIN itineraries

\* C27: in every reachable state, every record whose status is generated has
\* a generatedContent that is not null.
C27_GeneratedHasContent ==
    \A i \in DOMAIN itineraries :
        itineraries[i].status = "generated" =>
            itineraries[i].generatedContent /= Null

\* The columns the generation route's UPDATE sets.
GeneratedColumns == {"generatedContent", "status", "updatedAt"}

\* C28: the persist step of a generation request writes generatedContent,
\* status and updatedAt only: every other column of the stored row, a title
\* written by a PUT since the request read the row included, is as it was.
C28_GenerationWritesThreeColumns ==
    [][\A h \in InFlight :
          (GeneratePersist(h) /\ h.itinerary.id \in DOMAIN itineraries) =>
              LET id == h.itinerary.id IN
              /\ id \in DOMAIN itineraries'
              /\ DOMAIN itineraries'[id] = DOMAIN itineraries[id]
              /\ \A column \in DOMAIN itineraries[id] \ GeneratedColumns :
                    itineraries'[id][column] = itineraries[id][column]
              /\ itineraries'[id].generatedContent = h.data.generatedContent
              /\ itineraries'[id].status = "generated"
              /\ itineraries'[id].updatedAt = now]_vars

\* C28 witness: a generation request read the record under the title it was
\* created with, a PUT changed the title while the collaborator was awaited,
\* and the generation persisted: the record is generated and holds the title
\* of the PUT.
C28_Witness ==
    /\ res.op = "generate" /\ res.status = 200 /\ IsRow(res.body)
    /\ IsRow(res.read) /\ res.read.title /= "t2"
    /\ IsRow(before) /\ before.title = "t2" /\ before.status = "draft"
    /\ res.body.title = "t2"
    /\ res.body.status = "generated"
    /\ itineraries[res.id] = res.body

C30_LoadingFlagsReturnToFalse ==
    \A n \in 1..MaxClicks :
        (clicks = n) ~> (~isLoadingLocation /\ ~isLoadingSuggestions)

\* C30 witness: getCurrentLocation was invoked, the position was found, the
\* backend request failed, the timer of the popular destinations has fired,
\* and both flags are false with nothing pending.
C30_Witness ==
    /\ component = "backend"
    /\ clicks >= 1
    /\ error = "failed"
    /\ locationName = "Unknown Location"
    /\ tasks = EmptyBag
    /\ ~isLoadingLocation
    /\ ~isLoadingSuggestions

====
